---- MODULE Spec2Model ----
(***************************************************************************)
(* Model of the lexer (gettok), the recursive-descent parser (ParseExpr,   *)
(* ParseListExpr, ParseNumberExpr, ParseIdentifierExpr), the resolve of an *)
(* identifier (IdentifierExprAST::codegen) and the driver (main) of        *)
(* src/lisp_compiler.cpp.                                                  *)
(*                                                                         *)
(* Characters are their ASCII codes, tokens are the integers of enum       *)
(* Token, an unknown character is its own code.  The C++ call stack of the *)
(* parser is the sequence `stack' of ParseListExpr activations; ParseExpr, *)
(* ParseNumberExpr and ParseIdentifierExpr do not loop and are evaluated   *)
(* inside the step that calls them (`return ParseListExpr()' of ParseExpr  *)
(* hands the result through unchanged).                                    *)
(***************************************************************************)
EXTENDS Integers, Sequences, FiniteSets, TLC

\* ------------------------------------------------------------------ bounds
MaxLen == 4        \* longest standard input that is enumerated
MaxTokens == 4     \* most gettok calls the direct-call driver makes itself
MaxDepth == 3      \* ParseListExpr activations the call stack can hold
MaxItems == 3      \* nodes the Items vector of one activation can hold

\* ------------------------------------------------- characters and tokens
EOF == -1
ChSpace == 32
ChHash == 35
ChOpen == 40
ChClose == 41
Ch0 == 48
Ch7 == 55
ChA == 97

tok_eof == -1
tok_bracket_open == -2
tok_bracket_close == -3
tok_identifier == -5
tok_number == -6

Chars == {ChSpace, ChHash, ChOpen, ChClose, Ch0, Ch7, ChA}

\* The inputs the specification's examples name:
\* "(a 1 2)", "(set x (add 1 2))", "(a b", and the nested list "((a))".
Examples ==
  { <<40, 97, 32, 49, 32, 50, 41>>,
    <<40, 40, 97, 41, 41>>,
    <<40, 115, 101, 116, 32, 120, 32, 40, 97, 100, 100, 32, 49, 32, 50, 41, 41>>,
    <<40, 97, 32, 98>> }

Inputs == UNION {[1..n -> Chars] : n \in 0..MaxLen} \cup Examples

isspace(c) == c \in {9, 10, 11, 12, 13, 32}
isalpha(c) == c \in 65..90 \/ c \in 97..122
isdigit(c) == c \in 48..57
isalnum(c) == isalpha(c) \/ isdigit(c)

\* ------------------------------------------------------------- AST nodes
Node(t, v, n, is) == [type |-> t, Val |-> v, Name |-> n, Items |-> is]
nullptr == Node("null", 0, <<>>, <<>>)
NumberExprAST(v) == Node("Number", v, <<>>, <<>>)
IdentifierExprAST(n) == Node("Identifier", 0, n, <<>>)
ListExprAST(is) == Node("List", 0, <<>>, is)

ErrorMsg == "Error: unknown token when expecting an expression"
MainErrorMsg == "ERROR\tCharacter can not be processed"
Prompt == "ready> "
UnknownVarMsg == "Error: Unknown variable name"
NullValue == "nullptr"     \* the null llvm::Value*

VARIABLES
  input,          \* the characters of standard input
  pos,            \* number of getchar calls made so far
  LastChar,       \* gettok's static look-ahead character
  IdentifierStr,  \* global: text of the identifier token
  NumVal,         \* global: value of the number token
  CurTok,         \* global: the parser's current token
  stack,          \* active ParseListExpr activations, innermost last
  ret,            \* value returned by the call that returned last
  pc,             \* position of the driver
  diag,           \* lines written to stderr
  exitCode,       \* <<>> while running, <<code>> once main returned
  NamedValues,    \* global: the map from names to values
  codegenRet,     \* "none", or the value the codegen call returned
  toks,           \* history: the tokens gettok returned, in call order
  call            \* history: the parser entry that was called, and the state at the call

lexvars == <<pos, LastChar, IdentifierStr, NumVal, CurTok, toks>>
cgvars == <<NamedValues, codegenRet>>
vars == <<input, pos, LastChar, IdentifierStr, NumVal, CurTok, stack, ret, pc,
          diag, exitCode, NamedValues, codegenRet, toks, call>>

\* ----------------------------------------------------------------- lexer
\* The lexer's operators take the content s of standard input as a parameter;
\* gettok applies them to `input'.
\* getchar() when p characters were read before: the next character, or EOF.
getchar(s, p) == IF p < Len(s) THEN s[p + 1] ELSE EOF

\* A whitespace skip that is an `if' instead of a `while'.
SkipOneWhitespace(s, lc, p) ==
  IF isspace(lc) THEN [LastChar |-> getchar(s, p), pos |-> p + 1]
  ELSE [LastChar |-> lc, pos |-> p]

\* while(isspace(LastChar)) LastChar = getchar();
RECURSIVE SkipWhitespace(_, _, _)
SkipWhitespace(s, lc, p) ==
  IF isspace(lc) THEN SkipWhitespace(s, getchar(s, p), p + 1)
  ELSE [LastChar |-> lc, pos |-> p]

\* while(isalnum((LastChar = getchar()))) IdentifierStr += LastChar;
RECURSIVE IdentifierLoop(_, _, _)
IdentifierLoop(s, str, p) ==
  LET c == getchar(s, p) IN
  IF isalnum(c) THEN IdentifierLoop(s, Append(str, c), p + 1)
  ELSE [IdentifierStr |-> str, LastChar |-> c, pos |-> p + 1]

\* A digit loop that is left after its first round.
DigitLoopOnce(s, NumStr, lc, p) ==
  [NumStr |-> Append(NumStr, lc), LastChar |-> getchar(s, p), pos |-> p + 1]

\* do { NumStr += LastChar; LastChar = getchar(); } while (isdigit(LastChar));
RECURSIVE DigitLoop(_, _, _, _)
DigitLoop(s, NumStr, lc, p) ==
  LET c == getchar(s, p) IN
  IF isdigit(c) THEN DigitLoop(s, Append(NumStr, lc), c, p + 1)
  ELSE [NumStr |-> Append(NumStr, lc), LastChar |-> c, pos |-> p + 1]

\* strtod on a string of decimal digits, stored into the int NumVal.  A digit
\* run has at most MaxLen digits, far below the 10 digits an int can overflow at.
RECURSIVE strtod(_)
strtod(NumStr) ==
  IF NumStr = <<>> THEN 0
  ELSE strtod(SubSeq(NumStr, 1, Len(NumStr) - 1)) * 10 + (NumStr[Len(NumStr)] - Ch0)

Tok(t, lc, p, id, nv, at) ==
  [tok |-> t, LastChar |-> lc, pos |-> p, IdentifierStr |-> id, NumVal |-> nv, at |-> at]

\* An identifier branch that appends to IdentifierStr instead of assigning it.
IdentifierTokenAppends(s, c, q, id, nv) ==
  LET r == IdentifierLoop(s, Append(id, c), q)
  IN Tok(tok_identifier, r.LastChar, r.pos, r.IdentifierStr, nv, q)

\* gettok, lines 84-90: IdentifierStr = LastChar; the loop; return tok_identifier.
IdentifierToken(s, c, q, id, nv) ==
  LET r == IdentifierLoop(s, <<c>>, q)
  IN Tok(tok_identifier, r.LastChar, r.pos, r.IdentifierStr, nv, q)

\* An end-of-file branch that eats the EOF.
EofTokenReads(s, c, q, id, nv) == Tok(tok_eof, getchar(s, q), q + 1, id, nv, q)

\* gettok, lines 108-110: return tok_eof, LastChar stays EOF.
EofToken(s, c, q, id, nv) == Tok(tok_eof, c, q, id, nv, q)

\* A last branch that returns the character without reading the next one.
UnknownTokenKeeps(s, c, q, id, nv) == Tok(c, c, q, id, nv, q)

\* gettok, lines 112-115: ThisChar = LastChar; LastChar = getchar(); return ThisChar.
UnknownToken(s, c, q, id, nv) == Tok(c, getchar(s, q), q + 1, id, nv, q)

\* gettok on input s from the lexer state (lc, p, id, nv): the token and the
\* state after.  `at' is the number of getchar calls made when the token's
\* first character was classified, i.e. the 1-based index of that character.
gettokFrom(s, lc, p, id, nv) ==
  LET w == SkipWhitespace(s, lc, p)
      c == w.LastChar
      q == w.pos
  IN
  IF c = ChOpen THEN Tok(tok_bracket_open, c, q, Append(id, c), nv, q)
  ELSE IF c = ChClose THEN Tok(tok_bracket_close, c, q, Append(id, c), nv, q)
  ELSE IF isalpha(c) THEN IdentifierToken(s, c, q, id, nv)
  ELSE IF isdigit(c) THEN
    IF c = Ch0 THEN Tok(tok_number, c, q, id, strtod(<<c>>), q)
    ELSE LET r == DigitLoop(s, <<>>, c, q)
         IN Tok(tok_number, r.LastChar, r.pos, id, strtod(r.NumStr), q)
  ELSE IF c = EOF THEN EofToken(s, c, q, id, nv)
  ELSE UnknownToken(s, c, q, id, nv)

gettok == gettokFrom(input, LastChar, pos, IdentifierStr, NumVal)

\* static int getNextToken() { return CurTok = gettok(); }
getNextToken ==
  LET g == gettok IN
  /\ CurTok' = g.tok
  /\ LastChar' = g.LastChar
  /\ pos' = g.pos
  /\ IdentifierStr' = g.IdentifierStr
  /\ NumVal' = g.NumVal
  /\ toks' = Append(toks, [tok |-> g.tok, at |-> g.at,
                           text |-> g.IdentifierStr, val |-> g.NumVal])

\* ---------------------------------------------------------------- parser
\* What a parse function did when it did not have to call ParseListExpr:
\* the node it returns, whether it called getNextToken, whether it called Error.
Outcome(n, adv, err, list) == [node |-> n, advance |-> adv, error |-> err, list |-> list]

ParseNumberExpr == Outcome(NumberExprAST(NumVal), TRUE, FALSE, FALSE)

ParseIdentifierExpr == Outcome(IdentifierExprAST(IdentifierStr), FALSE, FALSE, FALSE)

\* A parse error that prints nothing.
ErrorSilent == Outcome(nullptr, FALSE, FALSE, FALSE)

\* Error(Str), lines 59-62: print "Error: <Str>", return nullptr.
Error == Outcome(nullptr, FALSE, TRUE, FALSE)

\* ParseExpr whose default case also reads a token.
ParseExprSkipsOnError ==
  IF CurTok = tok_identifier THEN ParseIdentifierExpr
  ELSE IF CurTok = tok_number THEN ParseNumberExpr
  ELSE IF CurTok = tok_bracket_open THEN Outcome(nullptr, FALSE, FALSE, TRUE)
  ELSE Outcome(nullptr, TRUE, TRUE, FALSE)

\* switch (CurTok); `list' says that the result is that of ParseListExpr().
ParseExpr ==
  IF CurTok = tok_identifier THEN ParseIdentifierExpr
  ELSE IF CurTok = tok_number THEN ParseNumberExpr
  ELSE IF CurTok = tok_bracket_open THEN Outcome(nullptr, FALSE, FALSE, TRUE)
  ELSE Error

Frame(p, is) == [pc |-> p, Items |-> is]
Top == stack[Len(stack)]
Pop == SubSeq(stack, 1, Len(stack) - 1)
SetTop(f) == [stack EXCEPT ![Len(stack)] = f]

Snapshot(fn) ==
  [fn |-> fn, CurTok |-> CurTok, LastChar |-> LastChar, pos |-> pos,
   ntok |-> Len(toks), IdentifierStr |-> IdentifierStr, NumVal |-> NumVal]

\* The innermost ParseListExpr returns v, having written the lines d to stderr.
\* Its caller is the ParseListExpr below it, or else the driver: main falls
\* through from `case tok_bracket_open' into `default' and returns -2.
Return(v, d) ==
  /\ stack' = Pop
  /\ ret' = v
  /\ IF Len(stack) > 1 THEN
       /\ pc' = pc /\ exitCode' = exitCode /\ diag' = d
     ELSE IF pc = "main_call" THEN
       /\ pc' = "exit" /\ exitCode' = <<-2>> /\ diag' = Append(d, MainErrorMsg)
     ELSE
       /\ pc' = "done" /\ exitCode' = exitCode /\ diag' = d

\* A ParseListExpr activation is running: the driver waits for its call to
\* return and the process has not died.
Parsing == pc \in {"main_call", "wait"} /\ stack # <<>>

\* ParseListExpr, line 189: getNextToken(); // eat (
ListEatOpen ==
  /\ Parsing /\ Top.pc = "eat_open"
  /\ getNextToken
  /\ stack' = SetTop(Frame("loop", Top.Items))
  /\ UNCHANGED <<input, ret, pc, diag, exitCode, call, cgvars>>

\* A ParseListExpr that answers a failed child with the list built so far.
ListChildFailedSalvages(d) == Return(ListExprAST(Top.Items), d)

\* ParseListExpr, lines 194-196: the child is null: return nullptr, dropping
\* Items; d is stderr after the child.
ListChildFailed(d) == Return(nullptr, d)

\* ParseListExpr, lines 192-196: if(auto V = ParseExpr()) push_back else return
\* nullptr.  At "loop" ParseExpr is called; at "await" the nested ParseListExpr
\* that ParseExpr called has returned `ret'.  The process dies ("crashed") when
\* the recursion exhausts the call stack or push_back exhausts the memory.
ListParseChild ==
  /\ Parsing /\ Top.pc \in {"loop", "await"}
  /\ UNCHANGED <<input, call, cgvars>>
  /\ LET e == IF Top.pc = "await" THEN Outcome(ret, FALSE, FALSE, FALSE) ELSE ParseExpr
     IN
     /\ IF e.advance THEN getNextToken ELSE UNCHANGED lexvars
     /\ IF e.list THEN
          /\ UNCHANGED <<ret, diag, exitCode>>
          /\ IF Len(stack) < MaxDepth
             THEN /\ stack' = Append(SetTop(Frame("await", Top.Items)), Frame("eat_open", <<>>))
                  /\ pc' = pc
             ELSE /\ stack' = stack
                  /\ pc' = "crashed"
        ELSE IF e.node = nullptr THEN
          ListChildFailed(IF e.error THEN Append(diag, ErrorMsg) ELSE diag)
        ELSE IF Len(Top.Items) < MaxItems THEN
          /\ stack' = SetTop(Frame("check", Append(Top.Items, e.node)))
          /\ UNCHANGED <<ret, pc, diag, exitCode>>
        ELSE
          /\ pc' = "crashed"
          /\ UNCHANGED <<stack, ret, diag, exitCode>>

\* ParseListExpr, lines 199-202: break on tok_bracket_close, else getNextToken().
ListCheckClose ==
  /\ Parsing /\ Top.pc = "check"
  /\ IF CurTok = tok_bracket_close
     THEN /\ stack' = SetTop(Frame("eat_close", Top.Items))
          /\ UNCHANGED lexvars
     ELSE /\ stack' = SetTop(Frame("loop", Top.Items))
          /\ getNextToken
  /\ UNCHANGED <<input, ret, pc, diag, exitCode, call, cgvars>>

\* ParseListExpr, lines 205-207: getNextToken(); // eat )   return the list.
ListEatClose ==
  /\ Parsing /\ Top.pc = "eat_close"
  /\ getNextToken
  /\ Return(ListExprAST(Top.Items), diag)
  /\ UNCHANGED <<input, call, cgvars>>

\* ---------------------------------------------------------------- driver
\* main, lines 231-232: prompt, load the first token.
MainInit ==
  /\ pc = "main_init"
  /\ diag' = Append(diag, Prompt)
  /\ getNextToken
  /\ pc' = "main_loop"
  /\ UNCHANGED <<input, stack, ret, exitCode, call, cgvars>>

\* main, lines 235-245: prompt, switch (CurTok).
MainLoop ==
  /\ pc = "main_loop"
  /\ UNCHANGED <<input, lexvars, ret, cgvars>>
  /\ IF CurTok = tok_eof THEN
       /\ diag' = Append(diag, Prompt)
       /\ exitCode' = <<0>> /\ pc' = "exit"
       /\ UNCHANGED <<stack, call>>
     ELSE IF CurTok = tok_bracket_open THEN
       /\ diag' = Append(diag, Prompt)
       /\ stack' = <<Frame("eat_open", <<>>)>>
       /\ call' = Snapshot("main")
       /\ pc' = "main_call"
       /\ UNCHANGED exitCode
     ELSE
       /\ diag' = Append(Append(diag, Prompt), MainErrorMsg)
       /\ exitCode' = <<-2>> /\ pc' = "exit"
       /\ UNCHANGED <<stack, call>>

\* A direct caller of the parser's functions: it calls getNextToken any number
\* of times and then ParseExpr or ParseListExpr once.
GetNextToken ==
  /\ pc = "lex" /\ Len(toks) < MaxTokens
  /\ getNextToken
  /\ UNCHANGED <<input, stack, ret, pc, diag, exitCode, call, cgvars>>

CallParseExpr ==
  /\ pc = "lex" /\ Len(toks) >= 1
  /\ call' = Snapshot("ParseExpr")
  /\ UNCHANGED <<input, exitCode, cgvars>>
  /\ LET e == ParseExpr IN
     /\ IF e.advance THEN getNextToken ELSE UNCHANGED lexvars
     /\ IF e.list THEN
          /\ stack' = <<Frame("eat_open", <<>>)>>
          /\ pc' = "wait"
          /\ UNCHANGED <<ret, diag>>
        ELSE
          /\ ret' = e.node
          /\ diag' = IF e.error THEN Append(diag, ErrorMsg) ELSE diag
          /\ pc' = "done"
          /\ UNCHANGED stack

CallParseListExpr ==
  /\ pc = "lex" /\ Len(toks) >= 1
  /\ call' = Snapshot("ParseListExpr")
  /\ stack' = <<Frame("eat_open", <<>>)>>
  /\ pc' = "wait"
  /\ UNCHANGED <<input, lexvars, ret, diag, exitCode, cgvars>>

\* An IdentifierExprAST::codegen that reads a token from the lexer.
IdentifierCodegenReadsToken ==
  /\ pc = "done" /\ ret.type = "Identifier"
  /\ LET V == IF ret.Name \in DOMAIN NamedValues THEN NamedValues[ret.Name] ELSE NullValue
     IN /\ NamedValues' = [n \in DOMAIN NamedValues \cup {ret.Name} |->
                             IF n \in DOMAIN NamedValues THEN NamedValues[n] ELSE NullValue]
        /\ diag' = IF V = NullValue THEN Append(diag, UnknownVarMsg) ELSE diag
        /\ codegenRet' = V
  /\ pc' = "resolved"
  /\ getNextToken
  /\ UNCHANGED <<input, stack, ret, exitCode, call>>

\* IdentifierExprAST::codegen, lines 151-156, on the Identifier node a parse
\* returned: V = NamedValues[Name] (operator[] of std::map inserts a null value
\* for a name that is not a key), ErrorV("Unknown variable name") when V is
\* null, return V.
IdentifierCodegen ==
  /\ pc = "done" /\ ret.type = "Identifier"
  /\ LET V == IF ret.Name \in DOMAIN NamedValues THEN NamedValues[ret.Name] ELSE NullValue
     IN /\ NamedValues' = [n \in DOMAIN NamedValues \cup {ret.Name} |->
                             IF n \in DOMAIN NamedValues THEN NamedValues[n] ELSE NullValue]
        /\ diag' = IF V = NullValue THEN Append(diag, UnknownVarMsg) ELSE diag
        /\ codegenRet' = V
  /\ pc' = "resolved"
  /\ UNCHANGED <<input, lexvars, stack, ret, exitCode, call>>

Init ==
  /\ input \in Inputs
  /\ pos = 0
  /\ LastChar = ChSpace
  /\ IdentifierStr = <<>>
  /\ NumVal = 0
  /\ CurTok = 0
  /\ stack = <<>>
  /\ ret = nullptr
  /\ pc \in {"main_init", "lex"}
  /\ diag = <<>>
  /\ exitCode = <<>>
  /\ NamedValues = <<>>
  /\ codegenRet = "none"
  /\ toks = <<>>
  /\ call = [fn |-> "none", CurTok |-> 0, LastChar |-> ChSpace, pos |-> 0,
             ntok |-> 0, IdentifierStr |-> <<>>, NumVal |-> 0]

Next ==
  \/ MainInit
  \/ MainLoop
  \/ GetNextToken
  \/ CallParseExpr
  \/ CallParseListExpr
  \/ ListEatOpen
  \/ ListParseChild
  \/ ListCheckClose
  \/ ListEatClose
  \/ IdentifierCodegen

Spec == Init /\ [][Next]_vars

TypeOK ==
  /\ pos \in 0..(Len(input) + 1)
  /\ Len(stack) <= MaxDepth
  /\ \A i \in 1..Len(stack) : Len(stack[i].Items) <= MaxItems
  /\ pc \in {"main_init", "main_loop", "main_call", "exit", "lex", "wait", "done", "crashed",
            "resolved"}
  /\ codegenRet \in {"none", NullValue}

\* ------------------------------------------------------------ properties
Last(s) == s[Len(s)]
Finished == pc \in {"done", "exit", "crashed"}

\* A parser entry was called with '(' as the current token; the look-ahead
\* character is that '(' and RestAtCall is the input from it on.
CalledOnOpen == call.fn # "none" /\ call.CurTok = tok_bracket_open
RestAtCall == SubSeq(input, call.pos, Len(input))
Middle(r) == SubSeq(r, 2, Len(r) - 1)

\* Reference reading of a run of atoms by the grammar of the specification:
\* Identifier ::= [a-zA-Z][a-zA-Z0-9]*, Number ::= "0" | [1-9][0-9]*.
IdentEnd(s, i) ==
  CHOOSE j \in i..Len(s) : /\ \A k \in i..j : isalnum(s[k])
                           /\ (j = Len(s) \/ ~isalnum(s[j + 1]))
NumEnd(s, i) ==
  IF s[i] = Ch0 THEN i
  ELSE CHOOSE j \in i..Len(s) : /\ \A k \in i..j : isdigit(s[k])
                                /\ (j = Len(s) \/ ~isdigit(s[j + 1]))
RECURSIVE RefAtomsFrom(_, _)
RefAtomsFrom(s, i) ==
  IF i > Len(s) THEN <<>>
  ELSE IF isspace(s[i]) THEN RefAtomsFrom(s, i + 1)
  ELSE IF isalpha(s[i]) THEN
    <<IdentifierExprAST(SubSeq(s, i, IdentEnd(s, i)))>> \o RefAtomsFrom(s, IdentEnd(s, i) + 1)
  ELSE
    <<NumberExprAST(strtod(SubSeq(s, i, NumEnd(s, i))))>> \o RefAtomsFrom(s, NumEnd(s, i) + 1)
RefAtoms(s) == RefAtomsFrom(s, 1)

OnlyAtoms(s) == \A k \in 1..Len(s) : isalnum(s[k]) \/ isspace(s[k])
IsFlatList(r) ==
  /\ Len(r) >= 3 /\ r[1] = ChOpen /\ r[Len(r)] = ChClose
  /\ OnlyAtoms(Middle(r)) /\ RefAtoms(Middle(r)) # <<>>

\* C1: a parse of a well-formed flat list "( atom ... atom )" succeeds and
\* returns the List of exactly its atoms, in source order.
C1_FlatListParsed ==
  (CalledOnOpen /\ IsFlatList(RestAtCall) /\ Finished)
    => (pc # "crashed" /\ ret = ListExprAST(RefAtoms(Middle(RestAtCall))))

\* C2: a list element that is itself a list becomes a List child and the outer
\* list goes on after the inner ')': "(set x (add 1 2))" gives
\* List[set, x, List[add, 1, 2]].
SetExample == <<40, 115, 101, 116, 32, 120, 32, 40, 97, 100, 100, 32, 49, 32, 50, 41, 41>>
SetExampleAST ==
  ListExprAST(<<IdentifierExprAST(<<115, 101, 116>>), IdentifierExprAST(<<120>>),
                ListExprAST(<<IdentifierExprAST(<<97, 100, 100>>),
                              NumberExprAST(1), NumberExprAST(2)>>)>>)
C2_NestedListParsed ==
  /\ (CalledOnOpen /\ RestAtCall = SetExample /\ Finished)
       => (pc # "crashed" /\ ret = SetExampleAST)
  /\ (CalledOnOpen /\ RestAtCall = <<ChOpen, ChOpen, ChA, ChClose, ChClose>> /\ Finished)
       => (pc # "crashed"
           /\ ret = ListExprAST(<<ListExprAST(<<IdentifierExprAST(<<ChA>>)>>)>>))

\* C3: the parse of "()" succeeds, returns a List without children and
\* reports no error.
C3_EmptyListParsed ==
  (CalledOnOpen /\ RestAtCall = <<ChOpen, ChClose>> /\ Finished)
    => (pc # "crashed" /\ ret = ListExprAST(<<>>)
        /\ \A i \in 1..Len(diag) : diag[i] # ErrorMsg)

\* C4: ParseExpr called on an Identifier token returns the Identifier node of
\* that name and has read exactly one further token, which is the current one.
C4_IdentifierAdvances ==
  (pc = "done" /\ call.fn = "ParseExpr" /\ call.CurTok = tok_identifier)
    => /\ ret = IdentifierExprAST(call.IdentifierStr)
       /\ Len(toks) = call.ntok + 1
       /\ CurTok = Last(toks).tok

\* C5: a gettok call that returns a parenthesis token consumes that
\* parenthesis: the next call classifies a later character; "()" lexes to
\* OpenParen, CloseParen, EndOfInput.
C5_ParenConsumed ==
  /\ \A i \in 1..(Len(toks) - 1) :
       toks[i].tok \in {tok_bracket_open, tok_bracket_close} => toks[i + 1].at > toks[i].at
  /\ (input = <<ChOpen, ChClose>> /\ Len(toks) >= 3)
       => (toks[1].tok = tok_bracket_open /\ toks[2].tok = tok_bracket_close
           /\ toks[3].tok = tok_eof)

\* C6: on the digit '0' gettok returns Number(0) and consumes that one
\* character: "0" lexes to Number(0), EndOfInput and "007" to Number 0, 0, 7,
\* EndOfInput.
IsNumber(t, v) == t.tok = tok_number /\ t.val = v
C6_ZeroConsumed ==
  /\ \A i \in 1..Len(toks) :
       (toks[i].tok = tok_number /\ input[toks[i].at] = Ch0)
         => /\ toks[i].val = 0
            /\ (i < Len(toks) => toks[i + 1].at > toks[i].at)
  /\ (input = <<Ch0>> /\ Len(toks) >= 2)
       => (IsNumber(toks[1], 0) /\ toks[2].tok = tok_eof)
  /\ (input = <<Ch0, Ch0, Ch7>> /\ Len(toks) >= 4)
       => (IsNumber(toks[1], 0) /\ IsNumber(toks[2], 0) /\ IsNumber(toks[3], 7)
           /\ toks[4].tok = tok_eof)

\* C7: every call of ParseExpr, or of ParseListExpr on '(', terminates: the
\* parser never recurses or iterates without consuming input, so there are
\* never more active ParseListExpr activations than '(' characters in the
\* input, nor more children in a list than characters of input.
OpenCount == Cardinality({k \in 1..Len(input) : input[k] = ChOpen})
ProperCall == call.fn \in {"main", "ParseExpr"} \/ CalledOnOpen
C7_ParserTerminates ==
  ProperCall =>
    /\ Len(stack) <= OpenCount
    /\ \A i \in 1..Len(stack) : Len(stack[i].Items) <= Len(input)

\* C8: when the input ends inside an open list, the list parse fails with an
\* error that is not the unexpected-token error ("(a b" fails as unterminated).
IsUnterminatedFlat(r) ==
  /\ Len(r) >= 1 /\ r[1] = ChOpen
  /\ OnlyAtoms(SubSeq(r, 2, Len(r)))
C8_UnterminatedList ==
  (CalledOnOpen /\ IsUnterminatedFlat(RestAtCall) /\ Finished)
    => (pc # "crashed" /\ ret = nullptr
        /\ \E i \in 1..Len(diag) : diag[i] \notin {ErrorMsg, Prompt, MainErrorMsg})

\* C9: ParseExpr called on a token that cannot start an expression
\* (CloseParen, an unknown character, EndOfInput) fails with the
\* unexpected-token error and reads nothing: the current token, the look-ahead
\* character and the read position are those of the call.
CannotStart(t) == t \notin {tok_identifier, tok_number, tok_bracket_open}
C9_ErrorLeavesCursor ==
  (pc = "done" /\ call.fn = "ParseExpr" /\ CannotStart(call.CurTok))
    => /\ ret = nullptr
       /\ diag = <<ErrorMsg>>
       /\ CurTok = call.CurTok
       /\ LastChar = call.LastChar
       /\ pos = call.pos
       /\ Len(toks) = call.ntok
C9_Witness ==
  /\ pc = "done" /\ call.fn = "ParseExpr"
  /\ call.CurTok = ChHash /\ call.LastChar = ChClose
  /\ ret = nullptr

\* C10: when a child of a list fails, the enclosing ParseListExpr returns
\* failure in that very step: it returns nullptr and not the list built so far,
\* and reads no token.
ChildFails ==
  /\ Parsing /\ Top.pc \in {"loop", "await"}
  /\ IF Top.pc = "await" THEN ret = nullptr ELSE CannotStart(CurTok)
FirstNonSpaceFrom(i) ==
  IF \E k \in i..Len(input) : ~isspace(input[k])
  THEN CHOOSE k \in i..Len(input) :
         ~isspace(input[k]) /\ \A m \in i..(k - 1) : isspace(input[m])
  ELSE Len(input) + 1

\* The base-10 value of a string of digits, most significant digit first.
RECURSIVE RefDecimal(_)
RefDecimal(s) ==
  IF s = <<>> THEN 0 ELSE (s[1] - 48) * 10 ^ (Len(s) - 1) + RefDecimal(Tail(s))

OnlyDigits(s) == \A k \in 1..Len(s) : isdigit(s[k])

\* C11: a Number token that starts with a digit 1..9 covers the maximal digit
\* run [1-9][0-9]*: its value is the base-10 value of the whole run, the
\* look-ahead stops at the first character after the run, and the next gettok
\* call classifies from there on; a digits-only input is one Number token.
C11_DigitRunIsOneNumber ==
  /\ \A i \in 1..Len(toks) :
       (toks[i].tok = tok_number /\ input[toks[i].at] # Ch0)
         => LET a == toks[i].at
                j == NumEnd(input, a)
            IN /\ a = 1 \/ ~isdigit(input[a - 1])
               /\ toks[i].val = RefDecimal(SubSeq(input, a, j))
               /\ i < Len(toks) => toks[i + 1].at = FirstNonSpaceFrom(j + 1)
               /\ i = Len(toks) => (pos = j + 1 /\ LastChar = getchar(input, j))
  /\ (input # <<>> /\ OnlyDigits(input) /\ input[1] # Ch0 /\ Len(toks) >= 2)
       => (IsNumber(toks[1], RefDecimal(input)) /\ toks[2].tok = tok_eof)
C11_Witness ==
  /\ Len(toks) = 1 /\ IsNumber(toks[1], 70)
  /\ LastChar = ChClose /\ pos = 3

\* C12: an Identifier token's text is exactly the run of letters and digits
\* consumed for it, never empty and free of text of earlier tokens; an input
\* [a-zA-Z][a-zA-Z0-9]* is one Identifier token whose text is the input.
C12_IdentifierTextIsRun ==
  /\ \A i \in 1..Len(toks) :
       toks[i].tok = tok_identifier
         => LET a == toks[i].at
                j == IdentEnd(input, a)
            IN /\ toks[i].text = SubSeq(input, a, j)
               /\ toks[i].text # <<>>
               /\ i < Len(toks) => toks[i + 1].at = FirstNonSpaceFrom(j + 1)
  /\ (input # <<>> /\ isalpha(input[1]) /\ (\A k \in 1..Len(input) : isalnum(input[k]))
      /\ Len(toks) >= 2)
       => (toks[1].tok = tok_identifier /\ toks[1].text = input /\ toks[2].tok = tok_eof)
C12_Witness ==
  /\ Len(toks) >= 2
  /\ toks[1].tok = tok_identifier /\ toks[1].text = <<ChA>>
  /\ toks[2].tok = tok_identifier /\ toks[2].text = <<ChA, Ch7>>

\* C13: once gettok has returned EndOfInput every later call returns
\* EndOfInput, classified at the same place, and getchar is never called again
\* after it has returned EOF: no call reads past the end of the input.
C13_EndOfInputIsFinal ==
  /\ \A i \in 1..Len(toks) :
       toks[i].tok = tok_eof
         => /\ toks[i].at = Len(input) + 1
            /\ \A j \in i..Len(toks) : toks[j].tok = tok_eof
  /\ pos <= Len(input) + 1
  /\ LastChar = EOF => pos = Len(input) + 1
C13_Witness ==
  /\ Len(toks) >= 3 /\ toks[1].tok = tok_identifier
  /\ toks[2].tok = tok_eof /\ toks[3].tok = tok_eof
  /\ LastChar = EOF

\* C14: a character that is not whitespace, a parenthesis, a letter or a digit
\* is returned as the Unknown token of exactly that character, and exactly
\* that character is consumed; gettok writes nothing to stderr and always
\* returns a token.
OtherChar(c) ==
  ~isspace(c) /\ c \notin {ChOpen, ChClose, EOF} /\ ~isalpha(c) /\ ~isdigit(c)
TokenKinds ==
  {tok_eof, tok_bracket_open, tok_bracket_close, tok_identifier, tok_number} \cup 0..255
C14_UnknownCharIsToken ==
  /\ \A i \in 1..Len(toks) :
       LET a == toks[i].at IN
       /\ toks[i].tok \in TokenKinds
       /\ toks[i].tok >= 0 => (a <= Len(input) /\ OtherChar(input[a]))
       /\ (a <= Len(input) /\ OtherChar(input[a]))
            => /\ toks[i].tok = input[a]
               /\ i < Len(toks) => toks[i + 1].at = FirstNonSpaceFrom(a + 1)
               /\ i = Len(toks) => (pos = a + 1 /\ LastChar = getchar(input, a))
  /\ pc = "lex" => diag = <<>>
C14_Witness ==
  /\ pc = "lex" /\ Len(toks) >= 2
  /\ toks[1].tok = ChHash /\ toks[2].tok = tok_identifier

\* The token a gettok call returned: its kind and the payload of that kind
\* (the text of an Identifier, the value of a Number).
Payload(t, text, val) ==
  [tok |-> t,
   text |-> IF t = tok_identifier THEN text ELSE <<>>,
   val |-> IF t = tok_number THEN val ELSE 0]

\* The tokens of the first n gettok calls on input s, from the lexer state
\* (lc, p, id, nv).
RECURSIVE LexFrom(_, _, _, _, _, _)
LexFrom(s, lc, p, id, nv, n) ==
  IF n = 0 THEN <<>>
  ELSE LET g == gettokFrom(s, lc, p, id, nv)
       IN <<Payload(g.tok, g.IdentifierStr, g.NumVal)>>
            \o LexFrom(s, g.LastChar, g.pos, g.IdentifierStr, g.NumVal, n - 1)
LexAll(s, n) == LexFrom(s, ChSpace, 0, <<>>, 0, n)

\* The positions k of s (between s[k] and s[k + 1]) that lie inside a token of
\* the grammar: inside an identifier or inside a digit run [1-9][0-9]*.
RefTokenEnd(s, i) ==
  IF isalpha(s[i]) THEN IdentEnd(s, i)
  ELSE IF isdigit(s[i]) THEN NumEnd(s, i)
  ELSE i
RECURSIVE RefInside(_, _)
RefInside(s, i) ==
  IF i > Len(s) THEN {}
  ELSE IF isspace(s[i]) THEN RefInside(s, i + 1)
  ELSE (i..(RefTokenEnd(s, i) - 1)) \cup RefInside(s, RefTokenEnd(s, i) + 1)
IsBoundary(s, k) == k \notin RefInside(s, 1)

InsertAt(s, k, w) == SubSeq(s, 1, k) \o w \o SubSeq(s, k + 1, Len(s))
WsRuns == {<<32>>, <<10>>, <<32, 9>>}

\* C15: the tokens of the gettok calls made on the input are the tokens of the
\* same number of calls on the input with a run of whitespace inserted before
\* its first token, after its last token or between two adjacent tokens; and
\* no token is a whitespace character.
C15_WhitespaceInsensitive ==
  /\ \A i \in 1..Len(toks) : ~isspace(toks[i].tok)
  /\ (pc = "lex" /\ Len(toks) = MaxTokens)
       => \A k \in 0..Len(input) : \A w \in WsRuns :
            IsBoundary(input, k)
              => LexAll(InsertAt(input, k, w), MaxTokens)
                   = [i \in 1..Len(toks) |-> Payload(toks[i].tok, toks[i].text, toks[i].val)]
C15_Witness ==
  /\ pc = "lex" /\ Len(toks) = MaxTokens
  /\ input = <<ChA, ChSpace, ChHash, Ch7>>
  /\ toks[1].tok = tok_identifier /\ toks[2].tok = ChHash /\ IsNumber(toks[3], 7)

\* C16: a failed parse call has written exactly one "Error: ..." line to
\* stderr, whatever the depth of the failure.
CallFailed ==
  /\ ret = nullptr
  /\ pc = "done" \/ (pc = "exit" /\ call.fn = "main")
ErrorLines == {i \in 1..Len(diag) : diag[i] \in {ErrorMsg, UnknownVarMsg}}
Resolve == pc = "done" /\ pc' = "resolved"
C17_ResolveLeavesParser ==
  [][Resolve => /\ codegenRet' = NullValue
                /\ diag' = Append(diag, UnknownVarMsg)
                /\ UNCHANGED <<pos, LastChar, IdentifierStr, NumVal, CurTok, stack>>
                /\ gettok' = gettok]_vars
C17_Witness ==
  /\ pc = "resolved" /\ codegenRet = NullValue
  /\ Last(diag) = UnknownVarMsg
  /\ CurTok = tok_identifier /\ ret = IdentifierExprAST(<<ChA, Ch7>>)

\* C18: main parses top-level lists one after another and returns 0 at
\* EndOfInput: on an input that is one well-formed flat list main returns 0
\* and never prints "Character can not be processed".
C18_DriverLoops ==
  (call.fn = "main" /\ IsFlatList(RestAtCall) /\ Finished)
    => /\ pc = "exit" /\ exitCode = <<0>>
       /\ \A i \in 1..Len(diag) : diag[i] # MainErrorMsg

C20_TableKeysUnchanged ==
  [][(Resolve /\ codegenRet' = NullValue)
       => DOMAIN NamedValues' = DOMAIN NamedValues]_vars

====
